---- MODULE Spec2Model ----
(***************************************************************************)
(* Schema-driven block extraction of aem-mhast (schema extraction module:  *)
(* extractValueFromElement, findElement, extractStringValue,               *)
(* extractArrayValue, extractObjectValue, extractSchemaValue and the       *)
(* driver extractBlockWithSchema).                                         *)
(*                                                                         *)
(* Representation.                                                         *)
(*  - A string is a sequence of characters; a character is a natural       *)
(*    number, 0 being a whitespace character.                              *)
(*  - An optional schema setting (selector, attribute, type, field name)   *)
(*    is a TLA+ string; "" is the absent setting.  The code tests these    *)
(*    settings by truthiness only, so an absent and an empty setting are   *)
(*    the same thing to it.                                                *)
(*  - The element tree is a table of nodes numbered in document order      *)
(*    (preorder); 0 is the null element.                                   *)
(*  - An extracted value is a tagged record; Null is the code's null.      *)
(*  - Every extraction function yields an outcome: the value it returns    *)
(*    or the fact that it threw, and the diagnostics it wrote.             *)
(***************************************************************************)
EXTENDS Integers, Sequences, FiniteSets, TLC

\* ------------------------------------------------------------------ bounds

\* Number of elements of the block's tree (the block element included).
MaxNodes == 3

\* ------------------------------------------------------------- vocabulary

TEXT == "text"
TSTRING == "string"
TARRAY == "array"
TOBJECT == "object"

\* Attribute names an element may carry.
AttrNames == {"href", "title"}
\* Field names of schema properties.
Names == {"title", "link"}
\* A selector the selector engine rejects (it throws on it).
BadSelector == "["

Nodes == 1..MaxNodes
NoElement == 0

\* ----------------------------------------------------------------- strings

IsSpace(c) == c = 0

RECURSIVE TrimStart(_)
TrimStart(s) ==
  IF s = <<>> THEN s
  ELSE IF IsSpace(Head(s)) THEN TrimStart(Tail(s)) ELSE s

RECURSIVE TrimEnd(_)
TrimEnd(s) ==
  IF s = <<>> THEN s
  ELSE IF IsSpace(s[Len(s)]) THEN TrimEnd(SubSeq(s, 1, Len(s) - 1)) ELSE s

\* String.prototype.trim
Trim(s) == TrimEnd(TrimStart(s))

\* ------------------------------------------------------------ element tree

\* An entry of element.properties.  The code takes the value for a string
\* (`as string`), and so does the model: an attribute is absent or has a string
\* value, the empty string and a whitespace-only string included.
Absent == [has |-> FALSE, val |-> <<>>]
Attr(s) == [has |-> TRUE, val |-> s]

\* The contents an element can have.  Values are unique to the element
\* (they carry its number), so that a result tells which element was read.
\*   plain : no attribute, text " <a> "
\*   attrs : href and title set, whitespace-only text
\*   blank : href present but empty, title whitespace-only, text "<a> "
KindNames == {"plain", "attrs", "blank"}

\* Tag and contents of the elements below the block element.
Forms == { <<"li", "plain">>, <<"li", "attrs">>, <<"li", "blank">>, <<"h2", "plain">> }

KindProps(k, i) ==
  CASE k = "plain" -> [a \in AttrNames |-> Absent]
    [] k = "attrs" -> [a \in AttrNames |-> IF a = "href" THEN Attr(<<20 + i>>) ELSE Attr(<<30 + i, 0>>)]
    [] k = "blank" -> [a \in AttrNames |-> IF a = "href" THEN Attr(<<>>) ELSE Attr(<<0>>)]

KindText(k, i) ==
  CASE k = "plain" -> <<0, 10 + i, 0>>
    [] k = "attrs" -> <<0>>
    [] k = "blank" -> <<10 + i, 0>>

RECURSIVE AncestorsOrSelf(_, _)
AncestorsOrSelf(parent, i) ==
  IF i = 0 THEN {} ELSE {i} \cup AncestorsOrSelf(parent, parent[i])

\* Parent vectors of trees whose nodes are numbered in document order.
Shapes ==
  { p \in [Nodes -> 0..(MaxNodes - 1)] :
      /\ p[1] = 0
      /\ \A i \in Nodes : i > 1 => p[i] \in 1..(i - 1)
      /\ \A i \in Nodes : i > 2 => p[i] \in AncestorsOrSelf(p, i - 1) }

Docs ==
  { [parent |-> p,
     tag |-> [i \in Nodes |-> IF i = 1 THEN "div" ELSE fm[i][1]],
     props |-> [i \in Nodes |-> KindProps(IF i = 1 THEN rk ELSE fm[i][2], i)],
     text |-> [i \in Nodes |-> KindText(IF i = 1 THEN rk ELSE fm[i][2], i)]] :
    p \in Shapes, rk \in KindNames, fm \in [Nodes \ {1} -> Forms] }

VARIABLES
  doc,     \* the block's element tree
  call,    \* the direct call made on the extraction engine, if any
  ret,     \* its outcome
  pc,      \* extractBlockWithSchema: "idle", "loop", "done" or "failed"
  block,   \* its blockNode argument
  schema,  \* its schema argument
  idx,     \* index of the next root field of the loop
  data,    \* the fields collected so far
  log,     \* the diagnostics written so far
  out      \* the value returned

vars == <<doc, call, ret, pc, block, schema, idx, data, log, out>>

\* Proper descendants of ctx, in document order.
Descendants(ctx) ==
  { i \in Nodes : i # ctx /\ ctx \in AncestorsOrSelf(doc.parent, i) }

RECURSIVE SortedSeq(_)
SortedSeq(S) ==
  IF S = {} THEN <<>>
  ELSE LET m == CHOOSE x \in S : \A y \in S : x <= y
       IN <<m>> \o SortedSeq(S \ {m})

\* The elements a selector matches under a context element, in document
\* order.  A selector is a tag name; the candidates are the descendants of the
\* context element.
Matches(selector, ctx) ==
  SortedSeq({ i \in Descendants(ctx) : doc.tag[i] = selector })

\* selectAll(selector, node) of the tree query facade
selectAll(selector, ctx) ==
  IF selector = BadSelector THEN [thrown |-> TRUE, els |-> <<>>]
  ELSE [thrown |-> FALSE, els |-> Matches(selector, ctx)]

\* select(selector, node) of the tree query facade
select(selector, ctx) ==
  IF selector = BadSelector THEN [thrown |-> TRUE, el |-> NoElement]
  ELSE LET ms == Matches(selector, ctx)
       IN [thrown |-> FALSE, el |-> IF ms = <<>> THEN NoElement ELSE ms[1]]

RECURSIVE ConcatText(_)
ConcatText(els) ==
  IF els = <<>> THEN <<>> ELSE doc.text[Head(els)] \o ConcatText(Tail(els))

\* getText(element): the descendant text, concatenated in document order
getText(element) ==
  ConcatText(SortedSeq({element} \cup Descendants(element)))

\* ------------------------------------------------------------------ values

Null == [t |-> "null"]
StrV(s) == [t |-> TSTRING, s |-> s]
ArrV(xs) == [t |-> TARRAY, xs |-> xs]
ObjV(fs) == [t |-> TOBJECT, fs |-> fs]

\* An outcome: the value returned (or the fact that the call threw) and the
\* diagnostics written meanwhile.
Ok(v, w) == [thrown |-> FALSE, v |-> v, log |-> w]
Throw(w) == [thrown |-> TRUE, v |-> Null, log |-> w]

Warning(msg, a, b) == [msg |-> msg, a |-> a, b |-> b]

\* ------------------------------------------------------- schema properties

\* A schema property: every setting the code reads.  items is <<>> (absent)
\* or <<p>>; properties is a sequence of fields [n |-> name, p |-> property],
\* read only when hasProps.
Prop(type, sel, attr, items, hasProps, fields) ==
  [type |-> type, selector |-> sel, attribute |-> attr, items |-> items,
   hasProps |-> hasProps, properties |-> fields]

StringProp(sel, attr) == Prop(TSTRING, sel, attr, <<>>, FALSE, <<>>)
ArrayProp(sel, items) == Prop(TARRAY, sel, "", items, FALSE, <<>>)
ObjectProp(sel, fields) == Prop(TOBJECT, sel, "", <<>>, TRUE, fields)
\* an Object property that declares no properties
BareObjectProp(sel) == Prop(TOBJECT, sel, "", <<>>, FALSE, <<>>)
\* a property with an unsupported type tag
UnknownProp == Prop("number", "li", "", <<>>, FALSE, <<>>)
\* a property with no type tag
UntypedProp == Prop("", "li", "", <<>>, FALSE, <<>>)

Field(n, p) == [n |-> n, p |-> p]

StringProps ==
  { StringProp(sel, attr) : sel \in {"", "li", BadSelector}, attr \in {"", "href"} }

Leafs == StringProps \cup {UnknownProp, UntypedProp}

\* Field lists over a set of properties: one or two fields, distinct names.
FieldLists(P) ==
  { <<Field(n, p)>> : n \in Names, p \in P }
    \cup { <<Field("title", p), Field("link", q)>> : p \in P, q \in P }

ChildProps ==
  { StringProp("", ""), StringProp("", "href"), StringProp("li", ""), UnknownProp }

ArrayProps ==
  { ArrayProp(sel, it) : sel \in {"", "li", BadSelector},
                         it \in {<<>>} \cup { <<p>> : p \in Leafs } }

ObjectProps ==
  { ObjectProp(sel, fs) : sel \in {"", "li", "h2"}, fs \in FieldLists(ChildProps) }
    \cup { BareObjectProp(sel) : sel \in {"", "li"} }
    \cup { ObjectProp("li", <<>>) }

\* Properties nested two deep.
DeepProps ==
  { ArrayProp("li", <<ObjectProp("", <<Field("title", StringProp("", "")),
                                       Field("link", StringProp("", "href"))>>)>>),
    ArrayProp("li", <<ObjectProp("", <<Field("link", StringProp("h2", ""))>>)>>),
    ArrayProp("li", <<ArrayProp("li", <<StringProp("", "")>>)>>),
    ArrayProp("h2", <<ArrayProp("li", <<UnknownProp>>)>>),
    ObjectProp("li", <<Field("title", ArrayProp("li", <<StringProp("", "")>>)),
                       Field("link", StringProp("", "href"))>>),
    ObjectProp("", <<Field("title", ObjectProp("li", <<Field("link", StringProp("", ""))>>)),
                     Field("link", ArrayProp("li", <<UntypedProp>>))>>),
    ObjectProp("", <<Field("title", ArrayProp(BadSelector, <<StringProp("", "")>>))>>) }

\* ---------------------------------------------------------------- the code

HasProp(element, attributeName) ==
  /\ attributeName \in AttrNames
  /\ doc.props[element][attributeName].has

\* element.properties?.[attributeName] is truthy
TruthyProp(element, attributeName) ==
  /\ HasProp(element, attributeName)
  /\ doc.props[element][attributeName].val # <<>>

\* Faulty variant: the text is not trimmed.
extractValueFromElementNoTrim(element, attributeName) ==
  IF attributeName = TEXT THEN getText(element)
  ELSE IF TruthyProp(element, attributeName) THEN doc.props[element][attributeName].val
  ELSE getText(element)

extractValueFromElement(element, attributeName) ==
  IF attributeName = TEXT THEN Trim(getText(element))
  ELSE IF TruthyProp(element, attributeName) THEN doc.props[element][attributeName].val
  ELSE Trim(getText(element))

\* Faulty variant: a selector that misses is retried against the shared element.
findElementRetriesShared(contextNode, selector, sharedElement) ==
  IF selector # "" /\ select(selector, contextNode).el # NoElement
    THEN select(selector, contextNode)
    ELSE [thrown |-> selector # "" /\ select(selector, contextNode).thrown,
          el |-> sharedElement]

findElement(contextNode, selector, sharedElement) ==
  IF selector # "" THEN select(selector, contextNode)
  ELSE [thrown |-> FALSE, el |-> sharedElement]

\* Faulty variant: the field name wins over the attribute setting.
AttributeNameFieldFirst(property, propertyName) ==
  IF propertyName # "" THEN propertyName
  ELSE IF property.attribute # "" THEN property.attribute
  ELSE TEXT

\* property[ATTRIBUTE] || propertyName || TEXT
AttributeName(property, propertyName) ==
  IF property.attribute # "" THEN property.attribute
  ELSE IF propertyName # "" THEN propertyName
  ELSE TEXT

\* Faulty variant: the empty string is emitted.
OrNullKeepsEmpty(value) == StrV(value)

\* value || null
OrNull(value) == IF value # <<>> THEN StrV(value) ELSE Null

extractStringValue(contextNode, property, sharedElement, propertyName) ==
  LET selector == property.selector
      found == findElement(contextNode, selector, sharedElement)
      attributeName == AttributeName(property, propertyName)
  IN IF found.thrown THEN Throw(<<>>)
     ELSE IF found.el = NoElement
       THEN IF selector = "" /\ sharedElement = NoElement
              THEN Ok(OrNull(extractValueFromElement(contextNode, attributeName)), <<>>)
              ELSE Ok(Null, <<>>)
       ELSE Ok(OrNull(extractValueFromElement(found.el, attributeName)), <<>>)

RECURSIVE extractSchemaValue(_, _, _, _)
RECURSIVE MapItems(_, _)
RECURSIVE EachField(_, _, _)

\* Faulty variant: an item inherits a field name.
ItemCallNamed(element, items) == extractSchemaValue(element, items, NoElement, "title")

\* the callback of elements.map: one item, extracted on its own
ItemCall(element, items) == extractSchemaValue(element, items, NoElement, "")

\* elements.map(...): the results in match order; a throw ends the map
MapItems(elements, items) ==
  IF elements = <<>> THEN [thrown |-> FALSE, vs |-> <<>>, log |-> <<>>]
  ELSE LET o == ItemCall(Head(elements), items)
       IN IF o.thrown THEN [thrown |-> TRUE, vs |-> <<>>, log |-> o.log]
          ELSE LET r == MapItems(Tail(elements), items)
               IN [thrown |-> r.thrown, vs |-> <<o.v>> \o r.vs, log |-> o.log \o r.log]

\* Boolean(v) of an extracted value
Truthy(v) == v # Null /\ v # StrV(<<>>)

\* .filter(Boolean)
FilterBoolean(vs) == SelectSeq(vs, Truthy)

\* Faulty variant: an empty array is emitted.
ArrayResultAlways(results) == ArrV(results)

\* results.length > 0 ? results : null
ArrayResult(results) == IF Len(results) > 0 THEN ArrV(results) ELSE Null

extractArrayValue(contextNode, property) ==
  LET selector == property.selector
  IN IF selector = "" \/ property.items = <<>> THEN Ok(Null, <<>>)
     ELSE LET q == selectAll(selector, contextNode)
          IN IF q.thrown THEN Throw(<<>>)
             ELSE IF Len(q.els) = 0 THEN Ok(Null, <<>>)
             ELSE LET m == MapItems(q.els, property.items[1])
                  IN IF m.thrown THEN Throw(m.log)
                     ELSE Ok(ArrayResult(FilterBoolean(m.vs)), m.log)

\* Faulty variant: the children keep the original context.
ExtractionContextOriginal(sharedElement, contextNode) == contextNode

\* sharedElement || contextNode
ExtractionContext(sharedElement, contextNode) ==
  IF sharedElement # NoElement THEN sharedElement ELSE contextNode

\* the loop over Object.entries(property.properties)
EachField(fields, contextNode, sharedElement) ==
  IF fields = <<>> THEN [thrown |-> FALSE, fs |-> <<>>, log |-> <<>>]
  ELSE LET f == Head(fields)
           o == extractSchemaValue(ExtractionContext(sharedElement, contextNode),
                                   f.p, sharedElement, f.n)
       IN IF o.thrown THEN [thrown |-> TRUE, fs |-> <<>>, log |-> o.log]
          ELSE LET r == EachField(Tail(fields), contextNode, sharedElement)
                   kept == IF o.v # Null THEN <<[n |-> f.n, v |-> o.v]>> ELSE <<>>
               IN [thrown |-> r.thrown, fs |-> kept \o r.fs, log |-> o.log \o r.log]

\* Object.keys(result).length > 0 ? result : null
ObjectResult(fs) == IF Len(fs) > 0 THEN ObjV(fs) ELSE Null

extractObjectValue(contextNode, property) ==
  IF ~property.hasProps THEN Ok(Null, <<>>)
  ELSE LET objectSelector == property.selector
           q == IF objectSelector # "" THEN select(objectSelector, contextNode)
                ELSE [thrown |-> FALSE, el |-> NoElement]
       IN IF q.thrown THEN Throw(<<>>)
          ELSE LET r == EachField(property.properties, contextNode, q.el)
               IN IF r.thrown THEN Throw(r.log)
                  ELSE Ok(ObjectResult(r.fs), r.log)

\* Faulty variant: an unsupported type aborts the extraction.
UnsupportedTypeThrows(propertyType) == Throw(<<>>)

\* the default branch of the switch
UnsupportedType(propertyType) ==
  Ok(Null, <<Warning("Unsupported schema type", propertyType, "")>>)

extractSchemaValue(contextNode, property, sharedElement, propertyName) ==
  IF contextNode = NoElement \/ property.type = "" THEN Ok(Null, <<>>)
  ELSE CASE property.type = TSTRING ->
              extractStringValue(contextNode, property, sharedElement, propertyName)
         [] property.type = TARRAY -> extractArrayValue(contextNode, property)
         [] property.type = TOBJECT -> extractObjectValue(contextNode, property)
         [] OTHER -> UnsupportedType(property.type)

\* ------------------------------------------- extractBlockWithSchema (driver)

BlockName == "cards"

\* A block schema: properties is read only when hasProps.
Schema(hasProps, fields) == [hasProps |-> hasProps, properties |-> fields]

RootProps ==
  { StringProp("", ""), StringProp("li", "href"), StringProp(BadSelector, ""),
    UnknownProp, UntypedProp,
    ArrayProp("li", <<StringProp("", "")>>),
    ArrayProp("li", <<UnknownProp>>),
    ObjectProp("li", <<Field("title", StringProp("", "")),
                       Field("link", StringProp("", "href"))>>),
    ObjectProp("", <<Field("title", ArrayProp(BadSelector, <<StringProp("", "")>>))>>),
    ObjectProp("h2", <<Field("link", StringProp("", "")), Field("title", UnknownProp)>>) }

Schemas ==
  { Schema(TRUE, fs) : fs \in FieldLists(RootProps) \cup {<<>>} }
    \cup { Schema(FALSE, <<>>) }

\* Faulty variant: no catch around the extraction of a root field.
TryFieldNoCatch(o, propertyName) ==
  [failed |-> o.thrown,
   kept |-> IF ~o.thrown /\ o.v # Null THEN <<[n |-> propertyName, v |-> o.v]>> ELSE <<>>,
   log |-> o.log]

\* One pass of the loop body over a root field: the try block and its catch.
\* failed: the exception leaves extractBlockWithSchema.
TryField(o, propertyName) ==
  IF o.thrown
    THEN [failed |-> FALSE, kept |-> <<>>,
          log |-> o.log \o <<Warning("Error extracting property", propertyName, BlockName)>>]
    ELSE [failed |-> FALSE,
          kept |-> IF o.v # Null THEN <<[n |-> propertyName, v |-> o.v]>> ELSE <<>>,
          log |-> o.log]

\* Object.keys(data).length > 0 ? data : null
BlockResult(fs) == IF Len(fs) > 0 THEN ObjV(fs) ELSE Null

\* ------------------------------------------------------------ state machine

NoCall == [fn |-> "none"]
NoSchema == Schema(FALSE, <<>>)

Init ==
  /\ doc \in Docs
  /\ call = NoCall
  /\ ret = Ok(Null, <<>>)
  /\ pc = "idle"
  /\ block = NoElement
  /\ schema = NoSchema
  /\ idx = 0
  /\ data = <<>>
  /\ log = <<>>
  /\ out = Null

Idle == pc = "idle" /\ call = NoCall

\* A call of extractStringValue.
CallString ==
  /\ Idle
  /\ \E ctx \in Nodes, p \in StringProps, sh \in {NoElement} \cup Nodes, nm \in {""} \cup Names :
       /\ call' = [fn |-> "extractStringValue", ctx |-> ctx, property |-> p,
                   shared |-> sh, name |-> nm]
       /\ ret' = extractStringValue(ctx, p, sh, nm)
  /\ UNCHANGED <<doc, pc, block, schema, idx, data, log, out>>

\* A call of extractSchemaValue on an Array, Object or malformed property.
CallValue ==
  /\ Idle
  /\ \E ctx \in Nodes, p \in ArrayProps \cup ObjectProps \cup DeepProps \cup {UnknownProp, UntypedProp} :
       /\ call' = [fn |-> "extractSchemaValue", ctx |-> ctx, property |-> p,
                   shared |-> NoElement, name |-> ""]
       /\ ret' = extractSchemaValue(ctx, p, NoElement, "")
  /\ UNCHANGED <<doc, pc, block, schema, idx, data, log, out>>

\* extractBlockWithSchema is called: input validation.
BlockStart ==
  /\ Idle
  /\ \E b \in {NoElement, 1}, s \in Schemas :
       /\ block' = b
       /\ schema' = s
       /\ IF b = NoElement \/ ~s.hasProps
            THEN /\ log' = <<Warning("Invalid input for extractBlockWithSchema", BlockName, "")>>
                 /\ pc' = "done"
            ELSE /\ log' = <<>>
                 /\ pc' = "loop"
       /\ idx' = 1
       /\ data' = <<>>
       /\ out' = Null
  /\ UNCHANGED <<doc, call, ret>>

\* One iteration of the loop over the schema's root fields.
BlockField ==
  /\ pc = "loop"
  /\ idx <= Len(schema.properties)
  /\ LET f == schema.properties[idx]
         r == TryField(extractSchemaValue(block, f.p, NoElement, f.n), f.n)
     IN /\ log' = log \o r.log
        /\ data' = data \o r.kept
        /\ pc' = IF r.failed THEN "failed" ELSE "loop"
  /\ idx' = idx + 1
  /\ UNCHANGED <<doc, call, ret, block, schema, out>>

\* The loop is over: the mapping, or null when it is empty.
BlockReturn ==
  /\ pc = "loop"
  /\ idx > Len(schema.properties)
  /\ out' = BlockResult(data)
  /\ pc' = "done"
  /\ UNCHANGED <<doc, call, ret, block, schema, idx, data, log>>

Next == BlockStart \/ BlockField \/ BlockReturn \/ CallValue

\* extractBlockWithSchema on every block and schema, and extractSchemaValue on
\* Array, Object and malformed properties
Spec == Init /\ [][Next]_vars

NextString == CallString

\* extractStringValue on every element, String property, shared element and name
SpecString == Init /\ [][NextString]_vars

\* ------------------------------------------------ fetchBlockSchema (loader)

\* A URL is the sequence of its parts; <<>> is the absent (or empty) string.
\* ctx.edsDomainUrl
EdsDomains == { <<>>, <<"https:", "//", "main--site--org.aem.live">> }
\* ctx.sourceUrl: absent, not a URL, a URL
SourceUrls == { <<>>, <<"not a url">>, <<"https:", "//", "example.com", "/page">> }
BlockNames == {"cards", "hero"}
\* response.status of the responses the server gives
Statuses == {200, 404, 500}
\* The schemas a body can parse to.
ParsedSchemas == { Schema(TRUE, <<>>), Schema(TRUE, <<Field("title", StringProp("", ""))>>) }

\* new URL(sourceUrl) does not throw
ParsesAsURL(u) == Len(u) >= 3 /\ u[2] = "//"

\* `${sourceUrlObj.protocol}//${sourceUrlObj.hostname}`
BaseOfSource(u) == <<u[1], "//", u[3]>>

\* `${baseDomain}/blocks/${blockName}/${blockName}.schema.json`
SchemaUrl(baseDomain, blockName) ==
  baseDomain \o <<"/blocks/", blockName, "/", blockName, ".schema.json">>

\* response.ok
ResponseOk(status) == status >= 200 /\ status <= 299

\* A diagnostic of the loader: the message and what is interpolated into it
\* (url <<>> and status 0: none).
LoaderWarning(msg, blockName, url, status) ==
  [msg |-> msg, block |-> blockName, url |-> url, status |-> status]

\* The base domain: edsDomainUrl, else the origin of sourceUrl.
\* bad: new URL(sourceUrl) threw.
BaseDomain(eds, src) ==
  IF eds = <<>> /\ src # <<>>
    THEN (IF ParsesAsURL(src) THEN [bad |-> FALSE, base |-> BaseOfSource(src)]
          ELSE [bad |-> TRUE, base |-> <<>>])
    ELSE [bad |-> FALSE, base |-> eds]

\* The inner catch: the domain cannot be taken from sourceUrl.
OnBadSourceUrl(blockName, src) ==
  <<LoaderWarning("Failed to extract domain from sourceUrl", "", src, 0)>>

\* if (!baseDomain)
OnNoDomain(blockName) ==
  <<LoaderWarning("No domain available for fetching schema for block", blockName, <<>>, 0)>>

\* The else branch of response.ok.
OnNotOk(blockName, schemaUrl, status) ==
  <<LoaderWarning("Schema not found for block", blockName, schemaUrl, status)>>

\* The outer catch: fetch rejected or response.json() rejected.  The message
\* interpolates the block name only; the caught error is passed beside it and
\* is neither the address nor a status.
OnRejected(blockName, schemaUrl) ==
  <<LoaderWarning("Failed to fetch schema for block", blockName, <<>>, 0)>>

\* fetchBlockSchema is called: the base domain is determined and the fetch of
\* the schema's address is started, unless there is no domain.
LoaderStart ==
  /\ Idle
  /\ \E bn \in BlockNames, eds \in EdsDomains, src \in SourceUrls :
       LET c == [fn |-> "fetchBlockSchema", blockName |-> bn, edsDomainUrl |-> eds,
                 sourceUrl |-> src, fetched |-> <<>>, settled |-> "none", status |-> 0]
           d == BaseDomain(eds, src)
       IN IF d.bad
            THEN /\ call' = c
                 /\ log' = OnBadSourceUrl(bn, src)
                 /\ ret' = Ok(Null, <<>>)
                 /\ pc' = "done"
            ELSE IF d.base = <<>>
              THEN /\ call' = c
                   /\ log' = OnNoDomain(bn)
                   /\ ret' = Ok(Null, <<>>)
                   /\ pc' = "done"
              ELSE /\ call' = [c EXCEPT !.fetched = <<SchemaUrl(d.base, bn)>>]
                   /\ log' = <<>>
                   /\ ret' = ret
                   /\ pc' = "fetching"
  /\ UNCHANGED <<doc, block, schema, idx, data, out>>

\* await fetch(schemaUrl) settles: the network fails, or a response comes.
LoaderResponse ==
  /\ pc = "fetching"
  /\ \/ /\ call' = [call EXCEPT !.settled = "rejected"]
        /\ log' = log \o OnRejected(call.blockName, call.fetched[1])
        /\ ret' = Ok(Null, <<>>)
        /\ pc' = "done"
     \/ \E st \in Statuses :
          IF ResponseOk(st)
            THEN /\ call' = [call EXCEPT !.status = st]
                 /\ pc' = "parsing"
                 /\ UNCHANGED <<log, ret>>
            ELSE /\ call' = [call EXCEPT !.settled = "not ok", !.status = st]
                 /\ log' = log \o OnNotOk(call.blockName, call.fetched[1], st)
                 /\ ret' = Ok(Null, <<>>)
                 /\ pc' = "done"
  /\ UNCHANGED <<doc, block, schema, idx, data, out>>

\* await response.json() settles: the body is malformed, or it parses.
LoaderBody ==
  /\ pc = "parsing"
  /\ \/ /\ call' = [call EXCEPT !.settled = "malformed"]
        /\ log' = log \o OnRejected(call.blockName, call.fetched[1])
        /\ ret' = Ok(Null, <<>>)
     \/ \E sc \in ParsedSchemas :
          /\ call' = [call EXCEPT !.settled = "parsed"]
          /\ ret' = Ok(sc, <<>>)
          /\ log' = log
  /\ pc' = "done"
  /\ UNCHANGED <<doc, block, schema, idx, data, out>>

NextFetch == LoaderStart \/ LoaderResponse \/ LoaderBody

\* fetchBlockSchema for every block name and context, against every answer of
\* the network
SpecFetch == Init /\ [][NextFetch]_vars

\* ------------------------------------------------- what the claims speak of

StringCall == call.fn = "extractStringValue"
ValueCall == call.fn = "extractSchemaValue"

\* The value an attribute has on an element (<<>> when it has none).
AttrValue(e, a) == IF a \in AttrNames THEN doc.props[e][a].val ELSE <<>>
\* The element carries the attribute, whatever its value.
AttrPresent(e, a) == a \in AttrNames /\ doc.props[e][a].has

\* The trimmed descendant text of an element, as a result: omitted when empty.
TextResult(e) == IF Trim(getText(e)) = <<>> THEN Null ELSE StrV(Trim(getText(e)))

\* The element a String property reads, by the rule of the specification:
\* the first match of its selector under the context when it has a selector
\* (none on a miss), else the shared element when there is one, else the context.
ResolvedElement(ctx, sel, shared) ==
  IF sel # ""
    THEN (IF Matches(sel, ctx) = <<>> THEN NoElement ELSE Matches(sel, ctx)[1])
    ELSE (IF shared # NoElement THEN shared ELSE ctx)

\* The attribute name a String property reads, by the rule of the specification.
ResolvedAttribute(p, nm) ==
  CASE p.attribute # "" -> p.attribute
    [] p.attribute = "" /\ nm # "" -> nm
    [] OTHER -> TEXT

\* The element and attribute name of the String call made.
CallElement == ResolvedElement(call.ctx, call.property.selector, call.shared)
CallAttribute == ResolvedAttribute(call.property, call.name)

\* The fields a list of declared fields yields against a context and a shared
\* element: those whose own extraction returns a value, in declaration order.
RECURSIVE ExpectedFields(_, _, _)
ExpectedFields(fields, ctx, shared) ==
  IF fields = <<>> THEN <<>>
  ELSE LET f == Head(fields)
           o == extractSchemaValue(IF shared # NoElement THEN shared ELSE ctx, f.p, shared, f.n)
       IN (IF ~o.thrown /\ o.v # Null THEN <<[n |-> f.n, v |-> o.v]>> ELSE <<>>)
            \o ExpectedFields(Tail(fields), ctx, shared)

\* No null entry, no empty sequence and no empty mapping at any depth.
RECURSIVE Dense(_)
Dense(v) ==
  CASE v.t = TSTRING -> TRUE
    [] v.t = TARRAY -> Len(v.xs) > 0 /\ \A i \in 1..Len(v.xs) : Dense(v.xs[i])
    [] v.t = TOBJECT -> Len(v.fs) > 0 /\ \A i \in 1..Len(v.fs) : Dense(v.fs[i].v)
    [] OTHER -> FALSE

\* ------------------------------------------------------------------ claims

\* C1: the value extractBlockWithSchema returns is omission (null) or a
\* non-empty mapping, and at every depth of it there is no null entry, no empty
\* sequence and no empty mapping.
C1_NoEmptyValues ==
  pc = "done" => (out = Null \/ (out.t = TOBJECT /\ Dense(out)))

\* C1 witness: a block whose first root field is an Array that yields items and
\* whose second root field is an Array that yields none and is left out.
C1_Witness ==
  /\ pc = "done"
  /\ Len(schema.properties) = 2
  /\ schema.properties[1].p.type = TARRAY
  /\ schema.properties[2].p.type = TARRAY
  /\ out # Null
  /\ Len(out.fs) = 1
  /\ out.fs[1].v.t = TARRAY

\* C2 as claimed: every String result emitted is non-empty after trimming,
\* whatever the element and the attribute read.
C2_TrimmedNonEmpty ==
  (StringCall /\ ~ret.thrown /\ ret.v # Null) => Trim(ret.v.s) # <<>>

\* C2 as amended: every String result emitted is a non-empty string; a result
\* read from the descendant text is trimmed and non-empty after trimming; a
\* result that is empty after trimming is the untrimmed, whitespace-only value
\* of the named attribute of the element read.
C2_NonEmpty ==
  (StringCall /\ ~ret.thrown /\ ret.v # Null) =>
    /\ ret.v.t = TSTRING
    /\ ret.v.s # <<>>
    /\ CallElement # NoElement
    /\ \/ /\ ret.v.s = Trim(getText(CallElement))
          /\ Trim(ret.v.s) # <<>>
       \/ /\ CallAttribute # TEXT
          /\ AttrPresent(CallElement, CallAttribute)
          /\ ret.v.s = AttrValue(CallElement, CallAttribute)

\* C2 witness: a text that needed trimming is emitted trimmed.
C2_Witness ==
  /\ StringCall
  /\ ret.v # Null
  /\ CallAttribute = TEXT
  /\ ret.v.s = Trim(getText(CallElement))
  /\ ret.v.s # getText(CallElement)

\* C3 as claimed: with an attribute name that is not the text sentinel, the
\* result is the attribute's literal value whenever the element read carries
\* the attribute (an empty value being omitted), and the trimmed text only when
\* the element does not carry it.
C3_PresentAttributeIsRead ==
  (StringCall /\ ~ret.thrown /\ CallElement # NoElement /\ CallAttribute # TEXT) =>
    IF AttrPresent(CallElement, CallAttribute)
      THEN ret.v = (IF AttrValue(CallElement, CallAttribute) = <<>> THEN Null
                    ELSE StrV(AttrValue(CallElement, CallAttribute)))
      ELSE ret.v = TextResult(CallElement)

\* C4 as claimed: a String property with no selector, no attribute setting and
\* no shared element yields the trimmed text of its context, or omission when
\* that text is empty.
C4_TextOfContext ==
  (StringCall /\ call.property.selector = "" /\ call.property.attribute = ""
     /\ call.shared = NoElement) =>
    ret = Ok(TextResult(call.ctx), <<>>)

\* C4 as amended: so it is when no field name is passed down or the field name
\* is not the name of an attribute of the context; with a field name that names
\* a non-empty attribute of the context, the result is that attribute's value.
\* (An attribute that is present and empty is the case of C3.)
C4_TextOfContextUnlessNamed ==
  (StringCall /\ call.property.selector = "" /\ call.property.attribute = ""
     /\ call.shared = NoElement) =>
    CASE call.name # "" /\ AttrValue(call.ctx, call.name) # <<>> ->
           ret = Ok(StrV(AttrValue(call.ctx, call.name)), <<>>)
      [] call.name # "" /\ AttrPresent(call.ctx, call.name)
           /\ AttrValue(call.ctx, call.name) = <<>> -> TRUE
      [] OTHER -> ret = Ok(TextResult(call.ctx), <<>>)

\* C4 witness: such a property, with no field name, on a context whose text
\* needs trimming and is not empty.
C4_Witness ==
  /\ StringCall
  /\ call.property.selector = ""
  /\ call.property.attribute = ""
  /\ call.shared = NoElement
  /\ call.name = ""
  /\ ret.v # Null
  /\ ret.v.s # getText(call.ctx)

C6_AttributePriority ==
  (StringCall /\ ~ret.thrown /\ CallElement # NoElement) =>
    LET p == call.property
        e == CallElement
    IN /\ ret.v = OrNull(extractValueFromElement(e, CallAttribute))
       /\ (p.attribute # "" /\ AttrValue(e, p.attribute) # <<>>)
            => ret.v = StrV(AttrValue(e, p.attribute))
       /\ (p.attribute = "" /\ call.name # "" /\ AttrValue(e, call.name) # <<>>)
            => ret.v = StrV(AttrValue(e, call.name))
       /\ (p.attribute = "" /\ call.name = "") => ret.v = TextResult(e)

\* C6 witness: a property with attribute href and field name title, read on an
\* element that has a href and a different title: the href is the result.
C6_Witness ==
  /\ StringCall
  /\ call.property.attribute = "href"
  /\ call.name = "title"
  /\ CallElement # NoElement
  /\ AttrValue(CallElement, "title") # <<>>
  /\ AttrValue(CallElement, "href") # <<>>
  /\ AttrValue(CallElement, "href") # AttrValue(CallElement, "title")
  /\ ret.v = StrV(AttrValue(CallElement, "href"))

\* The results of extracting every element of a sequence with the items
\* schema, each on its own: no shared element, no field name.
RECURSIVE ItemValues(_, _)
ItemValues(els, items) ==
  IF els = <<>> THEN <<>>
  ELSE <<extractSchemaValue(Head(els), items, NoElement, "").v>> \o ItemValues(Tail(els), items)

NotOmitted(v) == v # Null

\* C7: an Array property with selector and items yields the non-omitted item
\* extractions over all matches of the selector under the context, in match
\* order (omission when there is none); without selector or items it is omitted.
C7_ArrayOfMatches ==
  (ValueCall /\ call.property.type = TARRAY /\ ~ret.thrown) =>
    LET p == call.property
    IN IF p.selector = "" \/ p.items = <<>>
         THEN ret.v = Null
         ELSE LET kept == SelectSeq(ItemValues(Matches(p.selector, call.ctx), p.items[1]),
                                    NotOmitted)
              IN ret.v = (IF kept = <<>> THEN Null ELSE ArrV(kept))

\* C7 witness: the selector matches two elements, the first item is omitted
\* and the second is the one element of the result.
C7_Witness ==
  /\ ValueCall
  /\ call.property.type = TARRAY
  /\ call.property.items = <<StringProp("", "")>>
  /\ Len(Matches(call.property.selector, call.ctx)) = 2
  /\ ret.v # Null
  /\ ret.v.xs = <<TextResult(Matches(call.property.selector, call.ctx)[2])>>

\* The element an Object property's selector resolves to (none: no selector
\* or no match).
ObjectElement(ctx, p) ==
  IF p.selector # "" /\ Matches(p.selector, ctx) # <<>>
    THEN Matches(p.selector, ctx)[1] ELSE NoElement

\* C8: with a selector resolving to E every child of an Object property is
\* extracted with E as context and shared element and its own name as field
\* name, so that a child String field with no selector reads E; with no
\* selector or no match every child is extracted against the original context
\* with no shared element.
C8_ObjectChildren ==
  (ValueCall /\ call.property.type = TOBJECT /\ call.property.hasProps /\ ~ret.thrown) =>
    LET p == call.property
        E == ObjectElement(call.ctx, p)
        kept == ExpectedFields(p.properties, call.ctx, E)
    IN /\ ret.v = (IF kept = <<>> THEN Null ELSE ObjV(kept))
       /\ \A i \in 1..Len(p.properties) :
            LET f == p.properties[i]
                a == ResolvedAttribute(f.p, f.n)
                own == OrNull(extractValueFromElement(IF E # NoElement THEN E ELSE call.ctx, a))
            IN (f.p.type = TSTRING /\ f.p.selector = "") =>
                 IF own = Null THEN \A j \in 1..Len(kept) : kept[j].n # f.n
                 ELSE \E j \in 1..Len(kept) : kept[j] = [n |-> f.n, v |-> own]

\* C8 witness: the selector resolves to an element other than the context, a
\* child String field with no selector yields that element's text, and the
\* context's own text is another one.
C8_Witness ==
  /\ ValueCall
  /\ call.property.type = TOBJECT
  /\ call.property.properties = <<Field("link", StringProp("", ""))>>
  /\ ObjectElement(call.ctx, call.property) # NoElement
  /\ ret.v = ObjV(<<[n |-> "link", v |-> TextResult(ObjectElement(call.ctx, call.property))]>>)
  /\ TextResult(call.ctx) # TextResult(ObjectElement(call.ctx, call.property))

\* The root fields whose own extraction throws, in declaration order.
ThrowingFields ==
  SelectSeq(schema.properties,
            LAMBDA f : extractSchemaValue(block, f.p, NoElement, f.n).thrown)

IsErrorEntry(w) == w.msg = "Error extracting property"

\* C9: extractBlockWithSchema never fails towards its caller; a root field whose
\* extraction throws is logged and left out, every root field is attempted,
\* and the mapping returned holds exactly the root fields whose own extraction
\* yields a value.
C9_FieldsIsolated ==
  /\ pc # "failed"
  /\ (pc = "done" /\ block # NoElement /\ schema.hasProps) =>
       /\ idx = Len(schema.properties) + 1
       /\ out = (IF ExpectedFields(schema.properties, block, NoElement) = <<>> THEN Null
                 ELSE ObjV(ExpectedFields(schema.properties, block, NoElement)))
       /\ LET errors == SelectSeq(log, IsErrorEntry)
          IN /\ Len(errors) = Len(ThrowingFields)
             /\ \A i \in 1..Len(errors) :
                  errors[i] = Warning("Error extracting property", ThrowingFields[i].n, BlockName)

\* C9 witness: the first root field throws, the second yields a value, and the
\* mapping returned holds the second alone.
C9_Witness ==
  /\ pc = "done"
  /\ Len(schema.properties) = 2
  /\ extractSchemaValue(block, schema.properties[1].p, NoElement, "title").thrown
  /\ out # Null
  /\ Len(out.fs) = 1
  /\ out.fs[1].n = "link"

\* A property is malformed: its type tag is none of string, array, object.
Malformed(p) == p.type \notin {TSTRING, TARRAY, TOBJECT}
WellTyped(f) == ~Malformed(f.p)
IsTypeEntry(w) == w.msg = "Unsupported schema type"

\* C10 as claimed: a malformed property is omitted and a diagnostic is emitted
\* for it.
C10_MalformedIsLogged ==
  (ValueCall /\ Malformed(call.property)) =>
    /\ ret.v = Null
    /\ ~ret.thrown
    /\ ret.log # <<>>

\* The number of diagnostics the malformed fields of a field list call for:
\* one for each field whose type tag is present.
RECURSIVE TypedMalformed(_)
TypedMalformed(fields) ==
  IF fields = <<>> THEN 0
  ELSE (IF Malformed(Head(fields).p) /\ Head(fields).p.type # "" THEN 1 ELSE 0)
         + TypedMalformed(Tail(fields))

\* C10 as amended: a malformed property is omitted; a diagnostic is emitted for
\* it when its type tag is present (non-empty), none when it has no type tag;
\* the sibling fields, at the root or inside an Object, yield what they yield
\* when the malformed property is not declared, and an Array of malformed items
\* is omitted.
C10_MalformedIsOmitted ==
  /\ (ValueCall /\ Malformed(call.property)) =>
       ret = Ok(Null, IF call.property.type # ""
                        THEN <<Warning("Unsupported schema type", call.property.type, "")>>
                        ELSE <<>>)
  /\ (ValueCall /\ call.property.type = TOBJECT /\ call.property.hasProps) =>
       LET p == call.property
           without == ObjectProp(p.selector, SelectSeq(p.properties, WellTyped))
           o == extractSchemaValue(call.ctx, without, NoElement, "")
       IN /\ ret.thrown = o.thrown
          /\ ret.v = o.v
          /\ ~ret.thrown =>
               Len(SelectSeq(ret.log, IsTypeEntry)) = TypedMalformed(p.properties)
  /\ (ValueCall /\ call.property.type = TARRAY /\ call.property.items # <<>>
        /\ call.property.selector \notin {"", BadSelector}) =>
       (Malformed(call.property.items[1]) =>
          /\ ret.v = Null
          /\ ~ret.thrown
          /\ Len(ret.log) = (IF call.property.items[1].type # ""
                               THEN Len(Matches(call.property.selector, call.ctx)) ELSE 0))
  /\ (pc = "done" /\ block # NoElement /\ schema.hasProps) =>
       LET kept == ExpectedFields(SelectSeq(schema.properties, WellTyped), block, NoElement)
       IN /\ out = (IF kept = <<>> THEN Null ELSE ObjV(kept))
          /\ Len(SelectSeq(log, IsTypeEntry)) >= TypedMalformed(schema.properties)

\* C10 witness: the block schema declares a malformed root field before a
\* String root field; the String field is in the result and one diagnostic
\* was written.
C10_Witness ==
  /\ pc = "done"
  /\ Len(schema.properties) = 2
  /\ schema.properties[1].p = UnknownProp
  /\ schema.properties[2].p.type = TSTRING
  /\ out # Null
  /\ out.fs[1].n = "link"
  /\ log = <<Warning("Unsupported schema type", "number", "")>>

LoaderCall == call.fn = "fetchBlockSchema"

\* The fetch failed: the network, a non-success status or a malformed body.
LoaderFailed == call.settled \in {"rejected", "not ok", "malformed"}

\* C11: fetchBlockSchema never raises; on a network failure, a non-success
\* status or malformed JSON it returns null and has logged the failure exactly
\* once, with the address it fetched or the status it got; it fetches at most
\* once per call; it returns a schema only when the one fetch succeeded and its
\* body parsed.
C11_LoaderContract ==
  LoaderCall =>
    /\ pc # "failed"
    /\ Len(call.fetched) <= 1
    /\ pc = "done" =>
         /\ ~ret.thrown
         /\ LoaderFailed =>
              /\ ret.v = Null
              /\ Len(log) = 1
              /\ \/ log[1].url = call.fetched[1]
                 \/ (call.status # 0 /\ log[1].status = call.status)
         /\ ret.v # Null =>
              /\ call.settled = "parsed"
              /\ Len(call.fetched) = 1
              /\ ResponseOk(call.status)

\* What the loader does on every path (C11 without the content of the
\* diagnostic): no raise, at most one fetch, null and exactly one diagnostic on
\* every failure, a schema only from a successful fetch whose body parsed; the
\* diagnostic carries address and status on a non-success status only.
LoaderDegrades ==
  LoaderCall =>
    /\ pc # "failed"
    /\ Len(call.fetched) <= 1
    /\ pc = "done" =>
         /\ ~ret.thrown
         /\ Len(log) = (IF call.settled = "parsed" THEN 0 ELSE 1)
         /\ LoaderFailed => ret.v = Null
         /\ ret.v # Null => (call.settled = "parsed" /\ ResponseOk(call.status))
         /\ call.settled = "not ok" =>
              (log[1].url = call.fetched[1] /\ log[1].status = call.status)
         /\ call.settled \in {"rejected", "malformed"} =>
              (log[1].url = <<>> /\ log[1].status = 0)

====
